---- MODULE Spec2Model ----
(***************************************************************************)
(* State-machine model of the surveillance-ai dashboard front end: the     *)
(* toast provider, the detection provider, the alert push channel, the     *)
(* Dashboard bootstrap/effect and the HLS video player.                    *)
(*                                                                         *)
(* JavaScript values are modelled as follows.                              *)
(*   - an optional field (undefined when absent) is a sequence of length   *)
(*     at most one: None = <<>>, Some(v) = <<v>>;                          *)
(*   - Date.now() is the variable now (milliseconds);                      *)
(*   - Math.random() is a pseudo-random generator: the variable rng is the *)
(*     value the next call returns, the seed is arbitrary;                 *)
(*   - a setTimeout callback is a record in a timer queue, holding the     *)
(*     values its closure captured and the time it is due.                 *)
(***************************************************************************)
EXTENDS Integers, Sequences, FiniteSets, TLC

VARIABLES
    now,               \* Date.now()
    ticks,             \* single milliseconds that have passed (bounds the clock)
    rng,               \* the value the next Math.random() returns
    toasts,            \* ToastProvider: the active toasts, in insertion order
    toastTimers,       \* ToastProvider: pending auto-removal timers
    raised,            \* every toast showToast has created so far
    currentDetection,  \* DetectionProvider: None (null) or Some(snapshot)
    detectionHistory,  \* DetectionProvider: snapshots, most recent first
    detectionCount,    \* DetectionProvider: the running total
    isDetecting,       \* DetectionProvider: live detection status
    detTimers,         \* DetectionProvider: pending snapshot expiry timers
    fed,               \* every event updateDetection has processed so far
    build,             \* which Dashboard source is built
    mounts,            \* Dashboard instances mounted so far
    mounted,           \* the instance mounted now, 0 when none is
    eff,               \* per instance: the position and locals of its effect's async function
    channels,          \* the instances whose EventSource is open
    delivered,         \* every event the push channels have dispatched so far
    streamUrl,         \* Dashboard state
    stats,             \* Dashboard state
    alerts,            \* Dashboard state: the alert history, most recent first
    trend,             \* Dashboard state
    loading,           \* Dashboard state
    detectionStatus,   \* Dashboard state: is_running
    platform,          \* VideoPlayer: what the browser offers ("hls.js", "native", "none")
    src,               \* VideoPlayer: the src prop
    isLoading,         \* VideoPlayer state
    hasError,          \* VideoPlayer state
    retryCount,        \* VideoPlayer state
    connectionStatus,  \* VideoPlayer state
    hls,               \* VideoPlayer: hlsRef.current, None (null) or Some(session)
    video,             \* VideoPlayer: the source and handlers set on the <video> element
    media,             \* VideoPlayer: stall listeners, and what the last handler asked of the <video> element
    retryTimers,       \* VideoPlayer: pending reconnect timers
    attempts,          \* reconnects retryConnection started since the last successful connection
    playerEvents       \* player events so far (bounds the run)

toastVars == <<rng, toasts, toastTimers, raised>>
detVars == <<currentDetection, detectionHistory, detectionCount, isDetecting, detTimers, fed>>
clockVars == <<now, ticks>>
compVars == <<streamUrl, stats, alerts, trend, loading, detectionStatus>>
dashVars == <<build, mounts, mounted, eff, channels, delivered, compVars>>
playerVars == <<platform, src, isLoading, hasError, retryCount, connectionStatus, hls, video,
                media, retryTimers, attempts, playerEvents>>

(***************************************************************************)
(* Bounds of the model.                                                    *)
(***************************************************************************)
MaxEvents == 2
MaxTicks == 1
RandomLevels == 2
MaxFrames == 2
MaxMounts == 2
MaxHistoryFrames == 52
MaxPlayerEvents == 5
MaxToasts == 3
MaxArrivals == 3

(***************************************************************************)
(* Constants of the program.                                               *)
(***************************************************************************)
DETECTION_DWELL == 10000
HISTORY_LIMIT == 50
DETECTION_HISTORY_KEEP == 49
FADE_ALLOWANCE == 300
MS_PER_HOUR == 3600000
TREND_HOURS == 6
RETRY_LIMIT == 3
RETRY_DELAY == 2000

(***************************************************************************)
(* JavaScript helpers.                                                     *)
(***************************************************************************)
None == <<>>
Some(v) == <<v>>

\* x || 0 on an optional number: undefined and 0 both give 0.
OrZero(x) == IF x = None THEN 0 ELSE x[1]

\* x || d on an optional value that is truthy whenever present.
OrElse(x, d) == IF x = None THEN d ELSE x[1]

\* Array.prototype.slice(0, n)
Slice0(s, n) == SubSeq(s, 1, IF Len(s) < n THEN Len(s) ELSE n)

\* Array.prototype.includes
Includes(s, v) == \E i \in 1..Len(s) : s[i] = v

Min(S) == CHOOSE x \in S : \A y \in S : x <= y

(***************************************************************************)
(* Alert events (the parsed JSON of a push-channel frame).                 *)
(***************************************************************************)
Ev(id, severity, person_count, new_person_count, objects) ==
    [id |-> id, type |-> None, timestamp |-> Some(0), severity |-> severity,
     person_count |-> person_count, new_person_count |-> new_person_count,
     objects |-> objects]

PersonCountValues == {None, Some(0), Some(1), Some(3)}

\* The events the bounded runs draw from.
SampleEvents ==
    { Ev(0, Some("critical"), None, Some(1), None),
      Ev(0, Some("high"), Some(3), Some(2), Some(<<"person", "person">>)),
      Ev(0, Some("medium"), Some(1), None, None),
      Ev(0, None, None, None, Some(<<"weapon">>)),
      Ev(0, Some("low"), Some(3), Some(0), None) }

(***************************************************************************)
(* ToastProvider (ToastContext.jsx).  The provider's state is threaded     *)
(* through a handler as a record, since one handler may call showToast     *)
(* several times.                                                          *)
(***************************************************************************)
ToastState == [toasts |-> toasts, timers |-> toastTimers, rng |-> rng, raised |-> raised]

\* Date.now() + Math.random() is a double: next to a time in milliseconds of
\* today's magnitude only a few bits of the fraction survive the addition,
\* so the fractions of the ids recur.  The generator walks through
\* RandomLevels values.
NextRandom(r) == (r + 1) % RandomLevels

\* showToast(message, type, duration) called at time t.
ShowToast(T, message, type, duration, t) ==
    LET id == <<t, T.rng>>
        toast == [id |-> id, message |-> message, type |-> type, duration |-> duration]
    IN  [toasts |-> Append(T.toasts, toast),
         timers |-> IF duration > 0
                    THEN Append(T.timers, [id |-> id, due |-> t + duration + FADE_ALLOWANCE])
                    ELSE T.timers,
         rng    |-> NextRandom(T.rng),
         raised |-> Append(T.raised, toast)]

\* prev.filter(toast => toast.id !== id)
RemoveToast(ts, id) == LET Keep(x) == x.id # id IN SelectSeq(ts, Keep)

SetToastState(T) ==
    /\ toasts' = T.toasts
    /\ toastTimers' = T.timers
    /\ rng' = T.rng
    /\ raised' = T.raised

(***************************************************************************)
(* DetectionProvider.updateDetection, new-arrivals variant.                *)
(***************************************************************************)
\* The snapshot built from an event at time t; serial is the identity of the
\* JavaScript object (the n-th snapshot allocated).
NewDetection(e, t, serial) ==
    [id |-> t, timestamp |-> t,
     personCount |-> OrZero(e.person_count),
     newPersonCount |-> OrZero(e.new_person_count),
     objectTypes |-> OrElse(e.objects, <<"person">>),
     severity |-> OrElse(e.severity, "medium"),
     serial |-> serial]

\* setDetectionCount(prev => prev + newArrivals)
CountIncrementByActive(e) == OrZero(e.person_count)
CountIncrement(e) == OrZero(e.new_person_count)

\* setDetectionHistory(prev => [newDetection, ...prev.slice(0, 49)])
PushDetection(d, prev) == <<d>> \o Slice0(prev, DETECTION_HISTORY_KEEP)

\* The notification updateDetection raises: None or Some(<<message, type, duration>>).
DetectionNotification(e) ==
    LET d == NewDetection(e, 0, 0)
        hasWeapon == Includes(d.objectTypes, "weapon")
    IN  IF hasWeapon \/ e.severity = Some("critical")
            THEN Some(<<"Critical Alert Detected!", "error", 5000>>)
        ELSE IF d.personCount > 2 \/ e.severity = Some("high")
            THEN Some(<<"new, total persons detected", "warning", 4000>>)
        ELSE IF d.newPersonCount > 0
            THEN Some(<<"new person detected", "info", 3000>>)
        ELSE None

Notify(T, n, t) == IF n = None THEN T ELSE ShowToast(T, n[1][1], n[1][2], n[1][3], t)

\* The provider's state after updateDetection(e) at time t.
DetState == [current |-> currentDetection, history |-> detectionHistory,
             count |-> detectionCount, timers |-> detTimers, fed |-> fed]

UpdateDetectionOn(D, e, t) ==
    LET d == NewDetection(e, t, Len(D.fed) + 1)
    IN  [current |-> Some(d),
         history |-> PushDetection(d, D.history),
         count   |-> D.count + CountIncrement(e),
         timers  |-> Append(D.timers, [id |-> d.id, serial |-> d.serial,
                                       due |-> t + DETECTION_DWELL]),
         fed     |-> Append(D.fed, e)]

\* detections.objects that is not an array: a truthy value that has no
\* includes method (an object, a number).  It stands in the model as a list
\* that holds this one marker.
MalformedObjects == <<"[object Object]">>

\* newDetection.objectTypes.includes('weapon') throws a TypeError.
UpdateDetectionThrows(e) == e.objects = Some(MalformedObjects)

\* The provider's state after an updateDetection(e) that threw at includes:
\* the three setters before it have been called, the timer is not scheduled.
UpdateDetectionAbortedOn(D, e, t) ==
    [UpdateDetectionOn(D, e, t) EXCEPT !.timers = D.timers]

SetDetState(D) ==
    /\ currentDetection' = D.current
    /\ detectionHistory' = D.history
    /\ detectionCount' = D.count
    /\ detTimers' = D.timers
    /\ fed' = D.fed

(***************************************************************************)
(* Timers: a callback runs once its delay has passed, and never before a   *)
(* pending callback that is due earlier.                                   *)
(***************************************************************************)
PendingDues == {toastTimers[i].due : i \in 1..Len(toastTimers)}
                 \cup {detTimers[i].due : i \in 1..Len(detTimers)}
                 \cup {retryTimers[i].due : i \in 1..Len(retryTimers)}

Runnable(due) == due <= now /\ \A d \in PendingDues : due <= d

\* The first timer of a queue that is due earliest (equal delays run in the
\* order they were scheduled).
FirstDue(q) == CHOOSE i \in 1..Len(q) :
                  /\ \A j \in 1..Len(q) : q[i].due <= q[j].due
                  /\ \A j \in 1..(i - 1) : q[j].due > q[i].due

Without(q, i) == SubSeq(q, 1, i - 1) \o SubSeq(q, i + 1, Len(q))

(***************************************************************************)
(* Actions of the providers and of the clock.                              *)
(***************************************************************************)
\* A consumer calls updateDetection(e).
UpdateDetection(e) ==
    /\ Len(fed) < MaxEvents
    /\ SetDetState(UpdateDetectionOn(DetState, e, now))
    /\ SetToastState(Notify(ToastState, DetectionNotification(e), now))
    /\ UNCHANGED <<isDetecting, clockVars, playerVars, dashVars>>

\* The 10 s timer of a snapshot:
\*   setCurrentDetection(prev => prev?.id === newDetection.id ? null : prev)
DetectionTimerFiresKeeping ==
    /\ detTimers # <<>>
    /\ LET i == FirstDue(detTimers)
           t == detTimers[i]
       IN  /\ Runnable(t.due)
           /\ detTimers' = Without(detTimers, i)
    /\ UNCHANGED <<currentDetection, detectionHistory, detectionCount, isDetecting, fed, toastVars, clockVars, playerVars, dashVars>>
DetectionTimerFires ==
    /\ detTimers # <<>>
    /\ LET i == FirstDue(detTimers)
           t == detTimers[i]
       IN  /\ Runnable(t.due)
           /\ currentDetection' =
                 IF currentDetection # None /\ currentDetection[1].id = t.id
                 THEN None ELSE currentDetection
           /\ detTimers' = Without(detTimers, i)
    /\ UNCHANGED <<detectionHistory, detectionCount, isDetecting, fed, toastVars, clockVars, playerVars, dashVars>>

\* The auto-removal timer of a toast.
ToastTimerFires ==
    /\ toastTimers # <<>>
    /\ LET i == FirstDue(toastTimers)
           t == toastTimers[i]
       IN  /\ Runnable(t.due)
           /\ toasts' = RemoveToast(toasts, t.id)
           /\ toastTimers' = Without(toastTimers, i)
    /\ UNCHANGED <<rng, raised, detVars, clockVars, playerVars, dashVars>>

\* A consumer calls showToast(message, type, duration).
ShowToastCalled(type, duration) ==
    /\ Len(raised) < MaxToasts
    /\ SetToastState(ShowToast(ToastState, "message", type, duration, now))
    /\ UNCHANGED <<detVars, clockVars, dashVars, playerVars>>

\* hideToast(id) is called: by the onClose of a Toast component (300 ms
\* after its close button was clicked or its fade-out began) or by any
\* consumer of the context.  The provider's timers are not cancelled.
HideToast(id) ==
    /\ toasts' = RemoveToast(toasts, id)
    /\ UNCHANGED <<rng, toastTimers, raised, detVars, clockVars, dashVars, playerVars>>

\* One millisecond passes.
Tick ==
    /\ ticks < MaxTicks
    /\ now' = now + 1
    /\ ticks' = ticks + 1
    /\ UNCHANGED <<toastVars, detVars, dashVars, playerVars>>

\* Nothing happens until the next pending timer is due.
Sleep ==
    /\ PendingDues # {}
    /\ Min(PendingDues) > now
    /\ now' = Min(PendingDues)
    /\ UNCHANGED <<ticks, toastVars, detVars, dashVars, playerVars>>

(***************************************************************************)
(* The push channel (lib/api subscribeAlerts) and its frames.  A frame is  *)
(* the text of one server-sent event: valid says whether JSON.parse        *)
(* accepts it, value is what it parses to.                                 *)
(***************************************************************************)
Frame(value) == [valid |-> TRUE, value |-> value]

Keepalive == [id |-> 0, type |-> Some("keepalive"), timestamp |-> None, severity |-> None,
              person_count |-> None, new_person_count |-> None, objects |-> None]

GarbageFrame == [valid |-> FALSE, value |-> Keepalive]

CriticalFrame == Frame(Ev(0, Some("critical"), None, Some(1), None))

KeepaliveFrame == Frame(Keepalive)

\* The frames the bounded runs draw from.
SampleFrames ==
    { CriticalFrame,
      KeepaliveFrame,
      GarbageFrame,
      Frame(Ev(0, Some("high"), Some(3), Some(2), Some(<<"person", "person">>))),
      Frame(Ev(0, Some("medium"), Some(1), None, None)) }

\* The n-th frame of a long run: an alert whose id is its arrival number.
HistoryFrame(n) == Frame(Ev(n, Some("low"), None, None, None))

\* JSON.parse(e.data): None when it throws.
JsonParse(frame) == IF frame.valid THEN Some(frame.value) ELSE None

\* What es.onmessage of the channel without keepalive filter does with a
\* frame: "ignore" (parse failure, only logged) or "forward".
OnMessageLegacyDispatch(frame) ==
    IF JsonParse(frame) = None THEN "ignore" ELSE "forward"

\* What es.onmessage does with a frame: "error" (parse failure, onError is
\* called), "drop" (keepalive) or "forward" (onMessage is called).
OnMessageDispatchSilent(frame) ==
    IF JsonParse(frame) = None THEN "drop"
    ELSE IF JsonParse(frame)[1].type = Some("keepalive") THEN "drop"
    ELSE "forward"
OnMessageDispatch(frame) ==
    IF JsonParse(frame) = None THEN "error"
    ELSE IF JsonParse(frame)[1].type = Some("keepalive") THEN "drop"
    ELSE "forward"

(***************************************************************************)
(* The bootstrap queries and what they may answer: None is a rejected      *)
(* promise (network failure, timeout, server error).                       *)
(***************************************************************************)
\* The Dashboard sources of the repository: the two that use the toast and
\* detection providers, and the legacy one that pairs with the push channel
\* without keepalive filter.
Builds == {"hourly-trend", "sample-alerts", "legacy"}

ActiveStream == [status |-> "active", url |-> "u1"]
UnavailableStream == [status |-> "unavailable", url |-> ""]
StreamOutcomes == {None, Some(ActiveStream), Some(UnavailableStream)}

ServerTrend == <<[time |-> 0, count |-> 5]>>
SummaryPayload == [total |-> Some(5), critical |-> Some(1), high |-> Some(0),
                   blackout |-> Some(0), trend |-> ServerTrend]
EmptyPayload == [total |-> None, critical |-> None, high |-> None,
                 blackout |-> None, trend |-> <<>>]
StatsOutcomes == {None, Some(SummaryPayload), Some(EmptyPayload)}

OldAlert == Ev(0, Some("medium"), None, None, None)
AlertsOutcomes == {None, Some(<<>>), Some(<<OldAlert>>)}

DetectionOutcomes == {None, Some(TRUE), Some(FALSE)}

\* The defaults the catch blocks substitute.
StreamDefault == UnavailableStream
StatsDefault == [total |-> Some(0), critical |-> Some(0), high |-> Some(0),
                 blackout |-> Some(0), trend |-> <<>>]
AlertsDefault == <<>>

(***************************************************************************)
(* Dashboard: pure parts.                                                  *)
(***************************************************************************)
InitialStats == [total |-> 0, critical |-> 0, high |-> 0, blackout |-> 0]

\* setStats({total: statsData.total || 0, ...})
StatsFromPayload(p) ==
    [total |-> OrZero(p.total), critical |-> OrZero(p.critical),
     high |-> OrZero(p.high), blackout |-> OrZero(p.blackout)]

\* setStats({total: statsData.total ?? 42, ...}) of the sample-alerts source
StatsFromPayloadSample(p) ==
    [total |-> OrElse(p.total, 42), critical |-> OrElse(p.critical, 3),
     high |-> OrElse(p.high, 8), blackout |-> OrElse(p.blackout, 1)]

\* The three sample alerts of the sample-alerts source, built at time t.
SampleAlerts(t) ==
    << [id |-> 1, type |-> None, timestamp |-> Some(t - 5 * 60 * 1000), severity |-> Some("critical"),
        person_count |-> None, new_person_count |-> None,
        objects |-> Some(<<"person", "person">>)],
       [id |-> 2, type |-> None, timestamp |-> Some(t - 15 * 60 * 1000), severity |-> Some("high"),
        person_count |-> None, new_person_count |-> None, objects |-> None],
       [id |-> 3, type |-> None, timestamp |-> Some(t - 30 * 60 * 1000), severity |-> Some("medium"),
        person_count |-> None, new_person_count |-> None, objects |-> None] >>

\* The alerts the Dashboard shows after bootstrap.
BootAlerts(b, alertsData, t) ==
    IF b = "sample-alerts" /\ Len(alertsData) = 0 THEN SampleAlerts(t) ELSE alertsData

\* now.setHours(now.getHours(), 0, 0, 0): the start of the hour of t.
HourStart(t) == t - (t % MS_PER_HOUR)

\* createHourlyTrend(alerts, hours) called at time t.
CreateHourlyTrendInclusive(as, hours, t) ==
    [k \in 1..hours |->
        LET hourStart == HourStart(t) - (hours - k) * MS_PER_HOUR
            hourEnd == hourStart + MS_PER_HOUR
            inHour == {j \in 1..Len(as) :
                          /\ as[j].timestamp # None
                          /\ as[j].timestamp[1] >= hourStart
                          /\ as[j].timestamp[1] <= hourEnd}
        IN  [time |-> hourStart, count |-> Cardinality(inHour)]]
CreateHourlyTrend(as, hours, t) ==
    [k \in 1..hours |->
        LET hourStart == HourStart(t) - (hours - k) * MS_PER_HOUR
            hourEnd == hourStart + MS_PER_HOUR
            inHour == {j \in 1..Len(as) :
                          /\ as[j].timestamp # None
                          /\ as[j].timestamp[1] >= hourStart
                          /\ as[j].timestamp[1] < hourEnd}
        IN  [time |-> hourStart, count |-> Cardinality(inHour)]]

\* setAlerts(prev => [msg, ...prev].slice(0, 50))
PushAlertByTimestamp(msg, prev) ==
    LET Newer(a) == OrZero(a.timestamp) > OrZero(msg.timestamp)
        NotNewer(a) == ~Newer(a)
    IN  Slice0(SelectSeq(prev, Newer) \o <<msg>> \o SelectSeq(prev, NotNewer), HISTORY_LIMIT)
PushAlertKeepOldest(msg, prev) ==
    IF Len(prev) < HISTORY_LIMIT THEN <<msg>> \o prev ELSE prev
PushAlert(msg, prev) == Slice0(<<msg>> \o prev, HISTORY_LIMIT)

\* setStats(p => ({...p, total: (p.total || 0) + 1, critical: ..., high: ...}))
BumpStatsSeverityOnly(p, msg) ==
    [p EXCEPT !.critical = p.critical + (IF msg.severity = Some("critical") THEN 1 ELSE 0),
              !.high = p.high + (IF msg.severity = Some("high") THEN 1 ELSE 0)]
BumpStats(p, msg) ==
    [p EXCEPT !.total = p.total + 1,
              !.critical = p.critical + (IF msg.severity = Some("critical") THEN 1 ELSE 0),
              !.high = p.high + (IF msg.severity = Some("high") THEN 1 ELSE 0)]

\* The toast the Dashboard's onMessage raises for an alert.
AlertNotification(msg) ==
    IF msg.severity = Some("critical") THEN <<"alert title", "error", 5000>>
    ELSE IF msg.severity = Some("high") THEN <<"alert title", "warning", 4000>>
    ELSE <<"alert title", "info", 3000>>

(***************************************************************************)
(* Dashboard: the effect of one mounted instance.  Its async function      *)
(* awaits the four queries one after the other; pc names the query it is   *)
(* waiting for ("all" in the legacy source, which awaits Promise.all),     *)
(* answers what the queries have answered so far.  State setters of an    *)
(* instance that is no longer mounted do nothing; calls into the providers *)
(* always act.                                                             *)
(***************************************************************************)
NewEffect == [pc |-> IF build = "legacy" THEN "all" ELSE "stream", streamData |-> StreamDefault, statsData |-> StatsDefault,
              alertsData |-> AlertsDefault, unsub |-> "noop", answers |-> <<>>]

InitialComponent ==
    /\ streamUrl = ""
    /\ stats = InitialStats
    /\ alerts = <<>>
    /\ trend = <<>>
    /\ loading = TRUE
    /\ detectionStatus = FALSE

\* useState initial values of a new instance.
FreshComponent ==
    /\ streamUrl' = ""
    /\ stats' = InitialStats
    /\ alerts' = <<>>
    /\ trend' = <<>>
    /\ loading' = TRUE
    /\ detectionStatus' = FALSE

\* The Dashboard is mounted: fresh component state, the effect starts and
\* issues getStreamInfo().
Mount ==
    /\ mounted = 0
    /\ mounts < MaxMounts
    /\ mounts' = mounts + 1
    /\ mounted' = mounts + 1
    /\ eff' = Append(eff, NewEffect)
    /\ FreshComponent
    /\ UNCHANGED <<build, channels, delivered, toastVars, detVars, clockVars, playerVars>>

\* The Dashboard is unmounted: the effect's cleanup calls unsub(), whatever
\* the variable holds at that moment; the player's cleanup reports
\* connected = false.
Unmount ==
    /\ mounted # 0
    /\ channels' = IF eff[mounted].unsub = "close" THEN channels \ {mounted} ELSE channels
    /\ mounted' = 0
    /\ isDetecting' = FALSE
    /\ UNCHANGED <<build, mounts, eff, delivered, compVars, toastVars, clockVars, playerVars,
                   currentDetection, detectionHistory, detectionCount, detTimers, fed>>

\* await getStreamInfo() settles with outcome o.
StreamSettles(i, o) ==
    /\ eff[i].pc = "stream"
    /\ eff' = [eff EXCEPT ![i].pc = "stats",
                          ![i].answers = Append(@, o),
                          ![i].streamData = IF o = None THEN StreamDefault ELSE o[1]]
    /\ SetToastState(IF o = None
                     THEN ShowToast(ToastState, "Video stream is currently unavailable.",
                                    "warning", 6000, now)
                     ELSE ToastState)
    /\ UNCHANGED <<build, mounts, mounted, channels, delivered, compVars, detVars, clockVars, playerVars>>

\* await getStats() settles with outcome o.
StatsSettlesAborting(i, o) ==
    /\ eff[i].pc = "stats"
    /\ eff' = [eff EXCEPT ![i].pc = IF o = None THEN "done" ELSE "alerts",
                          ![i].answers = Append(@, o),
                          ![i].statsData = IF o = None THEN StatsDefault ELSE o[1]]
    /\ SetToastState(IF o = None
                     THEN ShowToast(ToastState, "Unable to load analytics data.",
                                    "error", 4000, now)
                     ELSE ToastState)
    /\ UNCHANGED <<build, mounts, mounted, channels, delivered, compVars, detVars, clockVars, playerVars>>
StatsSettles(i, o) ==
    /\ eff[i].pc = "stats"
    /\ eff' = [eff EXCEPT ![i].pc = "alerts",
                          ![i].answers = Append(@, o),
                          ![i].statsData = IF o = None THEN StatsDefault ELSE o[1]]
    /\ SetToastState(IF o = None
                     THEN ShowToast(ToastState, "Unable to load analytics data.",
                                    "error", 4000, now)
                     ELSE ToastState)
    /\ UNCHANGED <<build, mounts, mounted, channels, delivered, compVars, detVars, clockVars, playerVars>>

\* await getAlerts({limit: 20}) settles with outcome o.
AlertsSettlesSubscribing(i, o) ==
    /\ eff[i].pc = "alerts"
    /\ eff' = [eff EXCEPT ![i].pc = "detection",
                          ![i].answers = Append(@, o),
                          ![i].unsub = "close",
                          ![i].alertsData = IF o = None THEN AlertsDefault ELSE o[1]]
    /\ channels' = channels \cup {i}
    /\ SetToastState(IF o = None
                     THEN ShowToast(ToastState, "Unable to load alerts data.",
                                    "error", 4000, now)
                     ELSE ToastState)
    /\ UNCHANGED <<build, mounts, mounted, delivered, compVars, detVars, clockVars, playerVars>>
AlertsSettles(i, o) ==
    /\ eff[i].pc = "alerts"
    /\ eff' = [eff EXCEPT ![i].pc = "detection",
                          ![i].answers = Append(@, o),
                          ![i].alertsData = IF o = None THEN AlertsDefault ELSE o[1]]
    /\ SetToastState(IF o = None
                     THEN ShowToast(ToastState, "Unable to load alerts data.",
                                    "error", 4000, now)
                     ELSE ToastState)
    /\ UNCHANGED <<build, mounts, mounted, channels, delivered, compVars, detVars, clockVars, playerVars>>

\* The toasts of the rest of the async function, in the order it raises them.
DetectionStatusToast(T, o, t) ==
    IF o = None THEN ShowToast(T, "Unable to check detection status.", "warning", 4000, t)
    ELSE IF o[1] THEN ShowToast(T, "Person detection is active and monitoring the stream!",
                                "success", 3000, t)
    ELSE ShowToast(T, "Person detection is not running.", "warning", 5000, t)

StreamIsActive(sd) == sd.status = "active" /\ sd.url # ""

StreamToast(T, sd, t) ==
    IF StreamIsActive(sd)
    THEN ShowToast(T, "Video stream connected successfully!", "info", 3000, t)
    ELSE T

SubscribeToast(T, opens, t) ==
    IF opens THEN T
    ELSE ShowToast(T, "Unable to setup real-time alerts", "warning", 5000, t)

\* await getDetectionStatus() settles with outcome o, and the function runs
\* to its end: it applies the bootstrap values, clears loading and calls
\* subscribeAlerts, whose EventSource opens or whose constructor throws.
DetectionSettles(i, o, opens) ==
    /\ eff[i].pc = "detection"
    /\ eff' = [eff EXCEPT ![i].pc = "done",
                          ![i].answers = Append(@, o),
                          ![i].unsub = IF opens THEN "close" ELSE "noop"]
    /\ channels' = IF opens THEN channels \cup {i} ELSE channels
    /\ isDetecting' = IF o = None THEN isDetecting ELSE o[1]
    /\ SetToastState(SubscribeToast(
                        StreamToast(DetectionStatusToast(ToastState, o, now),
                                    eff[i].streamData, now),
                        opens, now))
    /\ IF mounted = i
       THEN /\ detectionStatus' = IF o = None THEN detectionStatus ELSE o[1]
            /\ streamUrl' = IF StreamIsActive(eff[i].streamData)
                            THEN eff[i].streamData.url ELSE ""
            /\ stats' = IF build = "sample-alerts"
                        THEN StatsFromPayloadSample(eff[i].statsData)
                        ELSE StatsFromPayload(eff[i].statsData)
            /\ alerts' = BootAlerts(build, eff[i].alertsData, now)
            /\ trend' = IF build = "sample-alerts"
                        THEN eff[i].statsData.trend
                        ELSE CreateHourlyTrend(eff[i].alertsData, TREND_HOURS, now)
            /\ loading' = FALSE
       ELSE UNCHANGED compVars
    /\ UNCHANGED <<build, mounts, mounted, delivered, clockVars, playerVars,
                   currentDetection, detectionHistory, detectionCount, detTimers, fed>>

\* The Dashboard's onMessage(msg), the closure of instance i.  It runs inside
\* the try of es.onmessage: when updateDetection throws, the setters called
\* before it have acted, the rest of onMessage is skipped and the catch of
\* es.onmessage calls onError.
ForwardToDashboard(i, msg) ==
    /\ SetDetState(IF UpdateDetectionThrows(msg)
                   THEN UpdateDetectionAbortedOn(DetState, msg, now)
                   ELSE UpdateDetectionOn(DetState, msg, now))
    /\ SetToastState(
          IF UpdateDetectionThrows(msg)
          THEN ShowToast(ToastState, "Failed to parse real-time alert data", "warning", 5000, now)
          ELSE LET n == AlertNotification(msg)
               IN  ShowToast(Notify(ToastState, DetectionNotification(msg), now),
                             n[1], n[2], n[3], now))
    /\ IF mounted = i
       THEN /\ alerts' = PushAlert(msg, alerts)
            /\ trend' = IF build = "sample-alerts" THEN trend
                        ELSE CreateHourlyTrend(PushAlert(msg, alerts), TREND_HOURS, now)
            /\ stats' = IF UpdateDetectionThrows(msg) THEN stats ELSE BumpStats(stats, msg)
            /\ UNCHANGED <<streamUrl, loading, detectionStatus>>
       ELSE UNCHANGED compVars

\* The Dashboard's onError(errorMsg).
ReportChannelError(errorMsg) ==
    /\ SetToastState(ShowToast(ToastState, errorMsg, "warning", 5000, now))
    /\ UNCHANGED <<compVars, currentDetection, detectionHistory, detectionCount,
                   detTimers, fed>>

ChannelSilent ==
    UNCHANGED <<compVars, toastVars, currentDetection, detectionHistory,
                detectionCount, detTimers, fed>>

\* es.onmessage of the EventSource of instance i receives frame.
OnMessage(i, frame) ==
    /\ build # "legacy"
    /\ i \in channels
    /\ delivered' = Append(delivered, frame)
    /\ LET what == OnMessageDispatch(frame)
       IN  IF what = "forward" THEN ForwardToDashboard(i, JsonParse(frame)[1])
           ELSE IF what = "error" THEN ReportChannelError("Failed to parse real-time alert data")
           ELSE ChannelSilent
    /\ UNCHANGED <<build, mounts, mounted, eff, channels, isDetecting, clockVars, playerVars>>

\* The error event of an EventSource, as an entry of delivered.
TransportError == [valid |-> FALSE, value |-> Ev(0, None, None, None, None)]

\* es.onerror of the EventSource of instance i.
OnErrorClosing(i) ==
    /\ i \in channels
    /\ delivered' = Append(delivered, TransportError)
    /\ ReportChannelError("Lost connection to real-time alerts")
    /\ channels' = channels \ {i}
    /\ UNCHANGED <<build, mounts, mounted, eff, isDetecting, clockVars, playerVars>>
OnError(i) ==
    /\ i \in channels
    /\ delivered' = Append(delivered, TransportError)
    /\ ReportChannelError("Lost connection to real-time alerts")
    /\ UNCHANGED <<build, mounts, mounted, eff, channels, isDetecting, clockVars, playerVars>>

(***************************************************************************)
(* VideoPlayer (components/VideoPlayer.jsx).  A session is what            *)
(* initializeVideo set up: the source it loads and the retryCount its      *)
(* handlers captured from the render that ran it.                          *)
(***************************************************************************)
Platforms == {"hls.js", "native", "none"}
SrcValues == {"", "u1", "u2"}

PlayerState == [retryCount |-> retryCount, hasError |-> hasError, isLoading |-> isLoading,
                connectionStatus |-> connectionStatus, timers |-> retryTimers,
                attempts |-> attempts]

\* retryConnection() of a render that saw retryCount = c and src = s, called at
\* time t: what it does to the player's state and which toast it raises.
RetryConnectionSkipping(P, c, s, t) ==
    IF c < RETRY_LIMIT
    THEN [P EXCEPT !.retryCount = @ + 2, !.hasError = FALSE, !.isLoading = TRUE,
                   !.connectionStatus = "connecting",
                   !.timers = Append(@, [due |-> t + RETRY_DELAY, src |-> s, retryCount |-> c]),
                   !.attempts = @ + 1]
    ELSE P
RetryConnectionUnbounded(P, c, s, t) ==
    [P EXCEPT !.retryCount = @ + 1, !.hasError = FALSE, !.isLoading = TRUE,
              !.connectionStatus = "connecting",
              !.timers = Append(@, [due |-> t + RETRY_DELAY, src |-> s, retryCount |-> c]),
              !.attempts = @ + 1]
RetryConnectionOn(P, c, s, t) ==
    IF c < RETRY_LIMIT
    THEN [P EXCEPT !.retryCount = @ + 1, !.hasError = FALSE, !.isLoading = TRUE,
                   !.connectionStatus = "connecting",
                   !.timers = Append(@, [due |-> t + RETRY_DELAY, src |-> s, retryCount |-> c]),
                   !.attempts = @ + 1]
    ELSE P

RetryToast(T, c, t) ==
    IF c < RETRY_LIMIT
    THEN ShowToast(T, "Attempting to reconnect to video stream", "warning", 3000, t)
    ELSE ShowToast(T, "Video stream connection failed after 3 attempts.", "error", 8000, t)

SetPlayerState(P) ==
    /\ retryCount' = P.retryCount
    /\ hasError' = P.hasError
    /\ isLoading' = P.isLoading
    /\ connectionStatus' = P.connectionStatus
    /\ retryTimers' = P.timers
    /\ attempts' = P.attempts

\* initializeVideo() of a render that saw src = s and retryCount = c.  An
\* existing hls session is destroyed and replaced.
InitializeVideo(s, c) ==
    IF s = ""
    THEN /\ connectionStatus' = "disconnected"
         /\ UNCHANGED <<isLoading, hasError, video, toastVars>>
    ELSE /\ isLoading' = TRUE
         /\ hasError' = (platform = "none")
         /\ connectionStatus' = IF platform = "none" THEN "unsupported" ELSE "connecting"
         /\ video' = IF platform = "native" THEN Some([src |-> s, retryCount |-> c]) ELSE video
         /\ SetToastState(IF platform = "none"
                          THEN ShowToast(ToastState, "HLS not supported in this browser.",
                                         "error", 8000, now)
                          ELSE ToastState)

\* hlsRef.current after initializeVideo of a render that saw src = s and
\* retryCount = c, when it was cur before.
HlsAfterInitialize(cur, s, c) ==
    IF s = "" THEN cur
    ELSE IF platform = "hls.js" THEN Some([src |-> s, retryCount |-> c, destroyed |-> FALSE])
    ELSE None

\* The <video> element's playback as the component drives it: stall says
\* whether the stalled/waiting listeners are attached, seek whether the last
\* handler set currentTime, play what became of the last video.play().
IdleMedia == [stall |-> FALSE, seek |-> FALSE, play |-> "idle"]

\* initializeVideo of a render that saw src = s attaches the stall listeners
\* on the hls.js and the native path.
MediaAfterInitialize(m, s) ==
    IF s = "" \/ platform = "none" THEN m ELSE [m EXCEPT !.stall = TRUE]

\* The parent passes a new src: the effect's cleanup destroys the session and
\* reports connected = false, then the effect runs initializeVideo.
SrcChanges(s) ==
    /\ playerEvents < MaxPlayerEvents
    /\ s # src
    /\ src' = s
    /\ playerEvents' = playerEvents + 1
    /\ isDetecting' = FALSE
    /\ hls' = HlsAfterInitialize(None, s, retryCount)
    /\ media' = MediaAfterInitialize([media EXCEPT !.stall = FALSE], s)
    /\ InitializeVideo(s, retryCount)
    /\ UNCHANGED <<platform, retryCount, retryTimers, attempts, clockVars, dashVars,
                   currentDetection, detectionHistory, detectionCount, detTimers, fed>>

\* What the handlers of a successful connection do (MANIFEST_PARSED,
\* onloadeddata); c is the retryCount the handler captured, seeks whether the
\* handler sets currentTime before it calls video.play().
Connected(c, seeks) ==
    /\ isLoading' = FALSE
    /\ media' = [media EXCEPT !.seek = seeks, !.play = "pending"]
    /\ retryCount' = 0
    /\ connectionStatus' = "connected"
    /\ attempts' = 0
    /\ isDetecting' = detectionStatus
    /\ SetToastState(IF c > 0
                     THEN ShowToast(ToastState, "Video stream reconnected successfully!",
                                    "success", 3000, now)
                     ELSE ToastState)
    /\ playerEvents' = playerEvents + 1
    /\ UNCHANGED <<platform, src, hasError, hls, video, retryTimers, clockVars, dashVars,
                   currentDetection, detectionHistory, detectionCount, detTimers, fed>>

\* hls.js reports MANIFEST_PARSED on the live session; live says whether
\* hls.liveSyncPosition is a number by then.
ManifestParsed ==
    /\ playerEvents < MaxPlayerEvents
    /\ hls # None /\ ~hls[1].destroyed
    /\ \E live \in BOOLEAN : Connected(hls[1].retryCount, live)

\* hls.js reports an ERROR of the given type on the live session.
HlsErrorKeepingSession(type, fatal) ==
    /\ playerEvents < MaxPlayerEvents
    /\ hls # None /\ ~hls[1].destroyed
    /\ playerEvents' = playerEvents + 1
    /\ IF fatal
       THEN /\ hasError' = TRUE
            /\ connectionStatus' = "error"
            /\ hls' = hls
            /\ SetToastState(
                  IF type = "network"
                  THEN ShowToast(ToastState, "Network error detected. Attempting to recover...",
                                 "warning", 4000, now)
                  ELSE IF type = "media"
                  THEN ShowToast(ToastState, "Media playback error. Attempting to recover...",
                                 "warning", 4000, now)
                  ELSE ShowToast(ToastState, "Fatal stream error. Please try refreshing the page.",
                                 "error", 6000, now))
       ELSE UNCHANGED <<hasError, connectionStatus, hls, toastVars>>
    /\ UNCHANGED <<platform, media, src, isLoading, retryCount, video, retryTimers, attempts,
                   clockVars, dashVars, detVars>>
HlsError(type, fatal) ==
    /\ playerEvents < MaxPlayerEvents
    /\ hls # None /\ ~hls[1].destroyed
    /\ playerEvents' = playerEvents + 1
    /\ IF fatal
       THEN /\ hasError' = TRUE
            /\ connectionStatus' = "error"
            /\ hls' = IF type \in {"network", "media"} THEN hls
                      ELSE Some([hls[1] EXCEPT !.destroyed = TRUE])
            /\ SetToastState(
                  IF type = "network"
                  THEN ShowToast(ToastState, "Network error detected. Attempting to recover...",
                                 "warning", 4000, now)
                  ELSE IF type = "media"
                  THEN ShowToast(ToastState, "Media playback error. Attempting to recover...",
                                 "warning", 4000, now)
                  ELSE ShowToast(ToastState, "Fatal stream error. Please try refreshing the page.",
                                 "error", 6000, now))
       ELSE UNCHANGED <<hasError, connectionStatus, hls, toastVars>>
    /\ UNCHANGED <<platform, media, src, isLoading, retryCount, video, retryTimers, attempts,
                   clockVars, dashVars, detVars>>

\* The <video> element reports loadeddata (native HLS).
LoadedData ==
    /\ playerEvents < MaxPlayerEvents
    /\ video # None
    /\ Connected(video[1].retryCount, FALSE)

\* The <video> element reports an error (native HLS).
VideoError ==
    /\ playerEvents < MaxPlayerEvents
    /\ video # None
    /\ playerEvents' = playerEvents + 1
    /\ hasError' = TRUE
    /\ connectionStatus' = "error"
    /\ SetToastState(ShowToast(ToastState, "Video playback error. Stream may be unavailable.",
                               "error", 5000, now))
    /\ UNCHANGED <<platform, media, src, isLoading, retryCount, hls, video, retryTimers, attempts,
                   clockVars, dashVars, detVars>>

\* The Retry Connection button is on screen.
RetryButtonShown == hasError /\ ~isLoading /\ retryCount < RETRY_LIMIT

\* The user clicks Retry Connection: retryConnection() of the current render.
RetryClicked ==
    /\ playerEvents < MaxPlayerEvents
    /\ RetryButtonShown
    /\ playerEvents' = playerEvents + 1
    /\ SetPlayerState(RetryConnectionOn(PlayerState, retryCount, src, now))
    /\ SetToastState(RetryToast(ToastState, retryCount, now))
    /\ UNCHANGED <<platform, media, src, hls, video, clockVars, dashVars, detVars>>

\* The 2 s timer of retryConnection: initializeVideo() of the render that
\* scheduled it, if that render had a src.
RetryTimerFires ==
    /\ retryTimers # <<>>
    /\ LET i == FirstDue(retryTimers)
           t == retryTimers[i]
       IN  /\ Runnable(t.due)
           /\ retryTimers' = Without(retryTimers, i)
           /\ hls' = HlsAfterInitialize(hls, t.src, t.retryCount)
           /\ media' = MediaAfterInitialize(media, t.src)
           /\ IF t.src # ""
              THEN InitializeVideo(t.src, t.retryCount)
              ELSE UNCHANGED <<isLoading, hasError, connectionStatus, video, toastVars>>
    /\ UNCHANGED <<platform, src, retryCount, attempts, playerEvents, clockVars, dashVars, detVars>>

(***************************************************************************)
(* The legacy Dashboard and the push channel it pairs with: no providers,  *)
(* no notifications, every parsed frame is forwarded.                      *)
(***************************************************************************)
\* Promise.all of the three queries settles (each with its own catch), the
\* function applies the values, clears loading and calls subscribeAlerts.
LegacySettles(i, so, sto, ao, opens) ==
    /\ eff[i].pc = "all"
    /\ eff' = [eff EXCEPT ![i].pc = "done",
                          ![i].answers = <<so, sto, ao>>,
                          ![i].unsub = IF opens THEN "close" ELSE "noop"]
    /\ channels' = IF opens THEN channels \cup {i} ELSE channels
    /\ IF mounted = i
       THEN /\ streamUrl' = IF so = None THEN "" ELSE so[1].url
            /\ stats' = StatsFromPayloadSample(IF sto = None THEN StatsDefault ELSE sto[1])
            /\ trend' = IF sto = None THEN <<>> ELSE sto[1].trend
            /\ alerts' = BootAlerts("sample-alerts", IF ao = None THEN <<>> ELSE ao[1], now)
            /\ loading' = FALSE
            /\ UNCHANGED detectionStatus
       ELSE UNCHANGED compVars
    /\ UNCHANGED <<build, mounts, mounted, delivered, toastVars, detVars, clockVars, playerVars>>

\* es.onmessage of the legacy channel of instance i receives frame.
LegacyOnMessage(i, frame) ==
    /\ build = "legacy"
    /\ i \in channels
    /\ delivered' = Append(delivered, frame)
    /\ IF OnMessageLegacyDispatch(frame) = "forward" /\ mounted = i
       THEN /\ alerts' = PushAlert(JsonParse(frame)[1], alerts)
            /\ stats' = [stats EXCEPT !.total = @ + 1]
            /\ UNCHANGED <<streamUrl, trend, loading, detectionStatus>>
       ELSE UNCHANGED compVars
    /\ UNCHANGED <<build, mounts, mounted, eff, channels, toastVars, detVars, clockVars, playerVars>>

vars == <<clockVars, toastVars, detVars, dashVars, playerVars>>

InitClock == now = 0 /\ ticks = 0

InitToasts ==
    /\ rng \in 0..(RandomLevels - 1)
    /\ toasts = <<>>
    /\ toastTimers = <<>>
    /\ raised = <<>>

InitDetection ==
    /\ currentDetection = None
    /\ detectionHistory = <<>>
    /\ detectionCount = 0
    /\ isDetecting = FALSE
    /\ detTimers = <<>>
    /\ fed = <<>>

InitDashboard ==
    /\ build \in Builds
    /\ mounts = 0
    /\ mounted = 0
    /\ eff = <<>>
    /\ channels = {}
    /\ delivered = <<>>
    /\ InitialComponent

\* The player as the Dashboard first renders it: no src, the effect has run
\* initializeVideo, which found no src.
InitPlayer ==
    /\ platform \in Platforms
    /\ src = ""
    /\ isLoading = FALSE
    /\ hasError = FALSE
    /\ retryCount = 0
    /\ connectionStatus = "disconnected"
    /\ hls = None
    /\ video = None
    /\ media = IdleMedia
    /\ retryTimers = <<>>
    /\ attempts = 0
    /\ playerEvents = 0

Init == InitClock /\ InitToasts /\ InitDetection /\ InitDashboard /\ InitPlayer

(***************************************************************************)
(* SpecDetection: the detection provider fed with events, with its timers  *)
(* and the clock.                                                          *)
(***************************************************************************)
NextDetection ==
    \/ \E e \in SampleEvents : UpdateDetection(e)
    \/ DetectionTimerFires
    \/ ToastTimerFires
    \/ Tick
    \/ Sleep

SpecDetection == Init /\ [][NextDetection]_vars

\* The event loop runs every callback whose delay has passed, and time passes
\* while a timer is pending.
SpecDetectionFair ==
    /\ SpecDetection
    /\ WF_vars(DetectionTimerFires)
    /\ WF_vars(ToastTimerFires)
    /\ WF_vars(Sleep)

(***************************************************************************)
(* SpecDashboard: one Dashboard instance bootstraps with every outcome of  *)
(* the four queries, then receives push-channel events.                    *)
(***************************************************************************)
Instances == 1..mounts

FirstMount == mounts = 0 /\ Mount

NextDashboard ==
    \/ FirstMount
    \/ \E i \in Instances, o \in StreamOutcomes : StreamSettles(i, o)
    \/ \E i \in Instances, o \in StatsOutcomes : StatsSettles(i, o)
    \/ \E i \in Instances, o \in AlertsOutcomes : AlertsSettles(i, o)
    \/ \E i \in Instances, o \in DetectionOutcomes, opens \in BOOLEAN :
          DetectionSettles(i, o, opens)
    \/ \E i \in Instances, f \in SampleFrames :
          Len(delivered) < MaxFrames /\ OnMessage(i, f)
    \/ \E i \in Instances : Len(delivered) < MaxFrames /\ OnError(i)

SpecDashboard == Init /\ [][NextDashboard]_vars

(***************************************************************************)
(* SpecMount: the Dashboard is mounted and unmounted while its bootstrap   *)
(* is in flight.                                                           *)
(***************************************************************************)
NextMount ==
    \/ Mount
    \/ Unmount
    \/ \E i \in Instances, o \in {None, Some(ActiveStream)} : StreamSettles(i, o)
    \/ \E i \in Instances : StatsSettles(i, Some(SummaryPayload))
    \/ \E i \in Instances : AlertsSettles(i, Some(<<OldAlert>>))
    \/ \E i \in Instances, opens \in BOOLEAN : DetectionSettles(i, Some(TRUE), opens)

SpecMount == Init /\ [][NextMount]_vars

(***************************************************************************)
(* SpecHistory: one Dashboard instance bootstraps and then receives a long *)
(* run of alerts, each carrying its arrival number as id.                  *)
(***************************************************************************)
NextHistory ==
    \/ FirstMount
    \/ \E i \in Instances : StreamSettles(i, Some(ActiveStream))
    \/ \E i \in Instances : StatsSettles(i, Some(SummaryPayload))
    \/ \E i \in Instances, o \in {Some(<<>>), Some(<<OldAlert>>)} : AlertsSettles(i, o)
    \/ \E i \in Instances : DetectionSettles(i, Some(TRUE), TRUE)
    \/ \E i \in Instances :
          /\ Len(delivered) < MaxHistoryFrames
          /\ OnMessage(i, HistoryFrame(Len(delivered) + 1))

SpecHistory == Init /\ [][NextHistory]_vars

(***************************************************************************)
(* SpecLegacy: the legacy Dashboard bootstraps and receives frames.        *)
(***************************************************************************)
NextLegacy ==
    \/ FirstMount
    \/ \E i \in Instances, so \in StreamOutcomes, sto \in StatsOutcomes,
          ao \in AlertsOutcomes, opens \in BOOLEAN : LegacySettles(i, so, sto, ao, opens)
    \/ \E i \in Instances, f \in SampleFrames :
          Len(delivered) < MaxFrames /\ LegacyOnMessage(i, f)

SpecLegacy == Init /\ [][NextLegacy]_vars

(***************************************************************************)
(* SpecPlayer: the video player receives a src, connects, fails and is     *)
(* asked to retry.                                                         *)
(***************************************************************************)
NextPlayer ==
    \/ \E s \in SrcValues : SrcChanges(s)
    \/ ManifestParsed
    \/ \E type \in {"network", "media", "other"}, fatal \in BOOLEAN : HlsError(type, fatal)
    \/ LoadedData
    \/ VideoError
    \/ RetryClicked
    \/ RetryTimerFires
    \/ ToastTimerFires
    \/ Sleep

SpecPlayer == Init /\ [][NextPlayer]_vars

(***************************************************************************)
(* SpecRecovery: the player as in SpecPlayer, and the session resumes      *)
(* after hls.startLoad() or hls.recoverMediaError().                       *)
(***************************************************************************)
\* The live session loads and plays again after a fatal network or media error
\* (hls.js reports FRAG_LOADED and the like).  The component registers no
\* handler for any of these events.
HlsRecovers ==
    /\ playerEvents < MaxPlayerEvents
    /\ hls # None /\ ~hls[1].destroyed
    /\ hasError
    /\ playerEvents' = playerEvents + 1
    /\ UNCHANGED <<platform, media, src, isLoading, hasError, retryCount, connectionStatus, hls, video,
                   retryTimers, attempts, toastVars, clockVars, dashVars, detVars>>

NextRecovery ==
    \/ NextPlayer
    \/ HlsRecovers

SpecRecovery == Init /\ [][NextRecovery]_vars

(***************************************************************************)
(* SpecPlayback: the player as in SpecPlayer, the <video> element stalls   *)
(* and the promises of video.play() settle.                                *)
(***************************************************************************)
\* The <video> element reports stalled or waiting: onStall.  live says whether
\* hls.liveSyncPosition is a number, far whether playback is more than 3 s
\* behind the end of the media; the native handler only looks at far.
StalledReconnecting(live, far) ==
    /\ playerEvents < MaxPlayerEvents
    /\ media.stall
    /\ playerEvents' = playerEvents + 1
    /\ media' = [media EXCEPT !.seek = (platform = "hls.js" /\ live) \/ far, !.play = "pending"]
    /\ connectionStatus' = "connecting"
    /\ isLoading' = TRUE
    /\ UNCHANGED <<platform, src, hasError, retryCount, hls, video,
                   retryTimers, attempts, toastVars, clockVars, dashVars, detVars>>
Stalled(live, far) ==
    /\ playerEvents < MaxPlayerEvents
    /\ media.stall
    /\ playerEvents' = playerEvents + 1
    /\ media' = [media EXCEPT !.seek = (platform = "hls.js" /\ live) \/ far, !.play = "pending"]
    /\ UNCHANGED <<platform, src, isLoading, hasError, retryCount, connectionStatus, hls, video,
                   retryTimers, attempts, toastVars, clockVars, dashVars, detVars>>

\* The promise of the last video.play() settles: ok says whether it resolves.
\* A rejection is logged (MANIFEST_PARSED, onloadeddata) or ignored (onStall).
AutoplaySettlesSurfacing(ok) ==
    /\ playerEvents < MaxPlayerEvents
    /\ media.play = "pending"
    /\ playerEvents' = playerEvents + 1
    /\ media' = [media EXCEPT !.play = IF ok THEN "playing" ELSE "rejected"]
    /\ hasError' = (hasError \/ ~ok)
    /\ connectionStatus' = IF ok THEN connectionStatus ELSE "error"
    /\ SetToastState(IF ok THEN ToastState
                     ELSE ShowToast(ToastState, "Video playback error. Stream may be unavailable.",
                                    "error", 5000, now))
    /\ UNCHANGED <<platform, src, isLoading, retryCount, hls, video,
                   retryTimers, attempts, clockVars, dashVars, detVars>>
AutoplaySettles(ok) ==
    /\ playerEvents < MaxPlayerEvents
    /\ media.play = "pending"
    /\ playerEvents' = playerEvents + 1
    /\ media' = [media EXCEPT !.play = IF ok THEN "playing" ELSE "rejected"]
    /\ UNCHANGED <<platform, src, isLoading, hasError, retryCount, connectionStatus, hls, video,
                   retryTimers, attempts, toastVars, clockVars, dashVars, detVars>>

NextPlayback ==
    \/ NextPlayer
    \/ \E live \in BOOLEAN, far \in BOOLEAN : Stalled(live, far)
    \/ \E ok \in BOOLEAN : AutoplaySettles(ok)

SpecPlayback == Init /\ [][NextPlayback]_vars

(***************************************************************************)
(* SpecTrend: the Dashboard starts at some time of day, bootstraps with    *)
(* alert histories whose timestamps lie around that time, and receives     *)
(* live alerts.  An absent timestamp stands for one that new Date() cannot *)
(* parse (Invalid Date).                                                   *)
(***************************************************************************)
MINUTE == 60 * 1000

\* Times of day the run may start at: on the hour, just after it, just
\* before and on the half hour, just before the next hour.
TrendClock == {100 * MS_PER_HOUR + m :
                  m \in {0, 1, 30 * MINUTE - 1, 30 * MINUTE, 60 * MINUTE - 1}}

\* An alert of the history, timestamped ts.
TrendAlert(ts) == [OldAlert EXCEPT !.timestamp = ts]

\* An alert timestamped m minutes before t.
AlertBefore(t, m) == TrendAlert(Some(t - m * MINUTE))

\* The alert histories getAlerts may answer at time t.
TrendHistories(t) ==
    { <<AlertBefore(t, 30), AlertBefore(t, 90)>>,
      <<AlertBefore(t, 345)>>,
      <<AlertBefore(t, 420), AlertBefore(t, 30)>>,
      <<TrendAlert(None), AlertBefore(t, 30)>>,
      <<>> }

\* The frames the push channel may deliver at time t.
TrendFrames(t) == {Frame(AlertBefore(t, 0)), Frame(TrendAlert(None))}

InitTrend ==
    /\ now \in TrendClock
    /\ ticks = 0
    /\ InitToasts /\ InitDetection /\ InitDashboard /\ InitPlayer

NextTrend ==
    \/ FirstMount
    \/ \E i \in Instances : StreamSettles(i, Some(ActiveStream))
    \/ \E i \in Instances : StatsSettles(i, Some(SummaryPayload))
    \/ \E i \in Instances, h \in TrendHistories(now) : AlertsSettles(i, Some(h))
    \/ \E i \in Instances : DetectionSettles(i, Some(TRUE), TRUE)
    \/ \E i \in Instances, f \in TrendFrames(now) :
          Len(delivered) < MaxFrames /\ OnMessage(i, f)

SpecTrend == InitTrend /\ [][NextTrend]_vars

(***************************************************************************)
(* SpecToast: consumers show toasts of several durations, toasts are       *)
(* dismissed, timers fire and time passes.                                 *)
(***************************************************************************)
ToastDurations == {-1, 0, 3000, 5000}

\* The ids showToast has handed out so far.
RaisedIds == {raised[k].id : k \in 1..Len(raised)}

NextToast ==
    \/ \E d \in ToastDurations : ShowToastCalled("info", d)
    \/ \E id \in RaisedIds : HideToast(id)
    \/ ToastTimerFires
    \/ Tick
    \/ Sleep

SpecToast == Init /\ [][NextToast]_vars

(***************************************************************************)
(* SpecArrival: one Dashboard instance bootstraps and receives alerts      *)
(* whose timestamps are in any order, and keepalives between them.         *)
(***************************************************************************)
\* The n-th frame of the run, an alert timestamped ts.
StampedFrame(n, ts) ==
    Frame([Ev(n, Some("low"), None, None, None) EXCEPT !.timestamp = Some(ts)])

ArrivalStamps == {10, 20}

NextArrival ==
    \/ FirstMount
    \/ \E i \in Instances : StreamSettles(i, Some(ActiveStream))
    \/ \E i \in Instances : StatsSettles(i, Some(SummaryPayload))
    \/ \E i \in Instances, o \in {Some(<<>>), Some(<<OldAlert>>)} : AlertsSettles(i, o)
    \/ \E i \in Instances : DetectionSettles(i, Some(TRUE), TRUE)
    \/ \E i \in Instances, ts \in ArrivalStamps :
          /\ Len(delivered) < MaxArrivals
          /\ OnMessage(i, StampedFrame(Len(delivered) + 1, ts))
    \/ \E i \in Instances : Len(delivered) < MaxArrivals /\ OnMessage(i, KeepaliveFrame)

SpecArrival == Init /\ [][NextArrival]_vars

(***************************************************************************)
(* SpecStats: one Dashboard instance bootstraps and receives frames, among *)
(* them an alert whose detections.objects is not an array.                 *)
(***************************************************************************)
MalformedFrame == Frame(Ev(0, Some("medium"), Some(1), Some(1), Some(MalformedObjects)))

NextStats ==
    \/ FirstMount
    \/ \E i \in Instances : StreamSettles(i, Some(ActiveStream))
    \/ \E i \in Instances, o \in StatsOutcomes : StatsSettles(i, o)
    \/ \E i \in Instances, o \in AlertsOutcomes : AlertsSettles(i, o)
    \/ \E i \in Instances : DetectionSettles(i, Some(TRUE), TRUE)
    \/ \E i \in Instances, f \in SampleFrames \cup {MalformedFrame} :
          Len(delivered) < MaxFrames /\ OnMessage(i, f)

SpecStats == Init /\ [][NextStats]_vars

(***************************************************************************)
(* SpecFallbackCount: the fallback-count variant of                        *)
(* DetectionProvider.updateDetection, fed with events.                     *)
(***************************************************************************)
\* objects.filter(obj => obj === 'person').length
CountPersons(objects) == Cardinality({k \in 1..Len(objects) : objects[k] = "person"})

\* person_count || new_person_count || objects?.filter(...).length || 1
PersonCountFallback(e) ==
    IF OrZero(e.person_count) # 0 THEN e.person_count[1]
    ELSE IF OrZero(e.new_person_count) # 0 THEN e.new_person_count[1]
    ELSE IF e.objects # None /\ CountPersons(e.objects[1]) # 0 THEN CountPersons(e.objects[1])
    ELSE 1

NewDetectionFallback(e, t, serial) ==
    [id |-> t, timestamp |-> t,
     personCount |-> PersonCountFallback(e),
     objectTypes |-> OrElse(e.objects, <<"person">>),
     severity |-> OrElse(e.severity, "medium"),
     serial |-> serial]

DetectionNotificationFallback(e) ==
    LET d == NewDetectionFallback(e, 0, 0)
        hasWeapon == Includes(d.objectTypes, "weapon")
    IN  IF hasWeapon \/ e.severity = Some("critical")
            THEN Some(<<"Critical Alert Detected!", "error", 5000>>)
        ELSE IF d.personCount > 2 \/ e.severity = Some("high")
            THEN Some(<<"Multiple persons detected", "warning", 4000>>)
        ELSE Some(<<"Person detected", "info", 3000>>)

UpdateDetectionFallbackOn(D, e, t) ==
    LET d == NewDetectionFallback(e, t, Len(D.fed) + 1)
    IN  [current |-> Some(d),
         history |-> PushDetection(d, D.history),
         count   |-> D.count + 1,
         timers  |-> Append(D.timers, [id |-> d.id, serial |-> d.serial,
                                       due |-> t + DETECTION_DWELL]),
         fed     |-> Append(D.fed, e)]

\* A consumer calls updateDetection(e) of the fallback-count variant.
UpdateDetectionFallback(e) ==
    /\ Len(fed) < MaxEvents
    /\ SetDetState(UpdateDetectionFallbackOn(DetState, e, now))
    /\ SetToastState(Notify(ToastState, DetectionNotificationFallback(e), now))
    /\ UNCHANGED <<isDetecting, clockVars, playerVars, dashVars>>

NextFallbackCount ==
    \/ \E e \in SampleEvents : UpdateDetectionFallback(e)
    \/ DetectionTimerFires
    \/ ToastTimerFires
    \/ Tick
    \/ Sleep

SpecFallbackCount == Init /\ [][NextFallbackCount]_vars

(***************************************************************************)
(* Claims about the running total and the snapshot (SpecDetection).        *)
(***************************************************************************)
\* What the specification says one event adds to the running total: its
\* new_person_count when present, otherwise 1.
ClaimedIncrement(e) == IF e.new_person_count # None THEN e.new_person_count[1] ELSE 1

RECURSIVE ClaimedTotal(_)
ClaimedTotal(s) == IF s = <<>> THEN 0 ELSE ClaimedIncrement(Head(s)) + ClaimedTotal(Tail(s))

\* The running total of a run of updateDetection over the events s.
RECURSIVE CountOver(_)
CountOver(s) == IF s = <<>> THEN 0 ELSE CountIncrement(Head(s)) + CountOver(Tail(s))

\* C1: for any sequence of events passed to updateDetection, detectionCount
\* equals the sum over the events of new_person_count when present, otherwise 1.
C1_TotalIsSumOfNewArrivalsOrOne == detectionCount = ClaimedTotal(fed)

\* The events s with the person_count of the i-th replaced by f[i].
VaryPersonCount(s, f) == [i \in 1..Len(s) |-> [s[i] EXCEPT !.person_count = f[i]]]

\* C2: a run fed the same events with any other person_count values ends with
\* the same detectionCount as this run: the running total does not depend on
\* the active/current count.
C2_TotalIndependentOfActiveCount ==
    \A f \in [1..Len(fed) -> PersonCountValues] :
        CountOver(VaryPersonCount(fed, f)) = detectionCount

\* C2 witness: three persons stay in frame across two events, two of them
\* arrived in the first event and none in the second; the total is 2.
C2_Witness ==
    /\ Len(fed) = 2
    /\ fed[1].person_count = Some(3) /\ fed[1].new_person_count = Some(2)
    /\ fed[2].person_count = Some(3) /\ fed[2].new_person_count = Some(0)
    /\ detectionCount = 2

\* C4: when a snapshot's expiry timer clears currentDetection, the snapshot
\* cleared is the one the timer was scheduled for: the timer of an older event
\* never clears the snapshot of a newer one.
C4_TimerClearsOnlyItsOwnSnapshot ==
    [][(currentDetection # None /\ currentDetection' = None /\ detTimers # <<>>)
          => detTimers[FirstDue(detTimers)].serial = currentDetection[1].serial]_vars

(***************************************************************************)
(* Claims about the histories (SpecHistory).                               *)
(***************************************************************************)
Reverse(q) == [k \in 1..Len(q) |-> q[Len(q) + 1 - k]]

\* The alerts forwarded so far, in arrival order.
Arrived == [k \in 1..Len(delivered) |-> delivered[k].value]

\* The alerts the bootstrap of the mounted instance put on display.
Bootstrapped ==
    IF mounted # 0 /\ eff[mounted].pc = "done"
    THEN BootAlerts(build, eff[mounted].alertsData, now)
    ELSE <<>>

\* C3: the alert history and the detection history never hold more than 50
\* entries, and each is exactly the 50 latest arrivals, newest first: the
\* entries pushed out are those that arrived earliest, all others are kept.
C3_HistoriesKeepTheFiftyLatest ==
    /\ Len(alerts) <= 50
    /\ Len(detectionHistory) <= 50
    /\ alerts = Slice0(Reverse(Arrived) \o Bootstrapped, 50)
    /\ Len(detectionHistory) = (IF Len(fed) < 50 THEN Len(fed) ELSE 50)
    /\ \A k \in 1..Len(detectionHistory) :
          detectionHistory[k].serial = Len(fed) + 1 - k

\* C3 witness: the 52nd alert has arrived; both histories hold 50 entries and
\* the oldest kept one is the 3rd arrival.
C3_Witness ==
    /\ Len(delivered) = 52
    /\ Len(alerts) = 50 /\ alerts[1].id = 52 /\ alerts[50].id = 3
    /\ Len(detectionHistory) = 50 /\ detectionHistory[50].serial = 3

(***************************************************************************)
(* Claims about the push channel's lifetime (SpecMount).                   *)
(***************************************************************************)
\* C6: at most one push channel is open at any time, and none is open once
\* the Dashboard is unmounted and every bootstrap has run to its end.
C6_EveryOpenedChannelIsClosed ==
    /\ Cardinality(channels) <= 1
    /\ (mounted = 0 /\ \A i \in 1..Len(eff) : eff[i].pc = "done") => channels = {}

(***************************************************************************)
(* Claims about frames (SpecLegacy, SpecDashboard).                        *)
(***************************************************************************)
\* C7: a step that delivers a keepalive frame changes neither stats.total, nor
\* the alert history, nor detectionCount, nor currentDetection, nor the toasts.
C7_KeepaliveChangesNothing ==
    [][delivered' = Append(delivered, KeepaliveFrame)
          => UNCHANGED <<stats, alerts, detectionCount, currentDetection, toasts>>]_vars

\* The critical notifications raised so far, by any component.
CriticalNotifications ==
    {k \in 1..Len(raised) :
        /\ raised[k].type = "error"
        /\ raised[k].message \in {"Critical Alert Detected!", "alert title"}}

\* The stats the bootstrap of instance 1 put on display.
BootStats ==
    IF build = "sample-alerts" THEN StatsFromPayloadSample(eff[1].statsData)
    ELSE StatsFromPayload(eff[1].statsData)

\* C8: after bootstrap, once a critical frame with one new person and then a
\* keepalive frame have arrived, the total is up by exactly 1, exactly one
\* critical notification was raised, and the histories grew by one entry.
C8_CriticalThenKeepalive ==
    (/\ mounted = 1 /\ build # "legacy"
     /\ delivered = <<CriticalFrame, KeepaliveFrame>>)
    => /\ stats.total = BootStats.total + 1
       /\ detectionCount = 1
       /\ Len(alerts) = Len(Bootstrapped) + 1
       /\ Len(detectionHistory) = 1
       /\ Cardinality(CriticalNotifications) = 1

(***************************************************************************)
(* Claims about the bootstrap (SpecDashboard).                             *)
(***************************************************************************)
\* How many of the notifications raised so far carry message m.
Raised(m) == Cardinality({k \in 1..Len(raised) : raised[k].message = m})

\* C9: when the stream query fails, the summary answers {5, 1, 0, 0} and the
\* alert history answers [], bootstrap ends with no stream locator, stats
\* {5, 1, 0, 0}, no alerts, one video-unavailability warning and no
\* alert-related warning.
C9_StreamFailsHistoryEmpty ==
    (/\ mounted = 1 /\ build # "legacy" /\ eff[1].pc = "done" /\ delivered = <<>>
     /\ 1 \in channels
     /\ eff[1].answers[1] = None
     /\ eff[1].answers[2] = Some(SummaryPayload)
     /\ eff[1].answers[3] = Some(<<>>))
    => /\ streamUrl = ""
       /\ stats = [total |-> 5, critical |-> 1, high |-> 0, blackout |-> 0]
       /\ alerts = <<>>
       /\ Raised("Video stream is currently unavailable.") = 1
       /\ Raised("Unable to load alerts data.") = 0
       /\ Raised("Unable to setup real-time alerts") = 0

\* The notification a failed query raises, by the query's position.
FailureMessage ==
    << "Video stream is currently unavailable.", "Unable to load analytics data.",
       "Unable to load alerts data.", "Unable to check detection status." >>

\* C10: whichever of the four queries fail, each query answered so far left
\* its own default when it failed and its answer when it did not, one
\* notification was raised for it exactly when it failed, and once the
\* bootstrap is over all four queries have been answered and loading is false.
C10_FailuresAreIsolated ==
    (mounted = 1 /\ build # "legacy") =>
        LET a == eff[1].answers
            Kept(k, local, default) ==
                k <= Len(a) => local = (IF a[k] = None THEN default ELSE a[k][1])
        IN  /\ Kept(1, eff[1].streamData, StreamDefault)
            /\ Kept(2, eff[1].statsData, StatsDefault)
            /\ Kept(3, eff[1].alertsData, AlertsDefault)
            /\ Kept(4, detectionStatus, FALSE)
            /\ \A k \in 1..4 :
                  Raised(FailureMessage[k]) = (IF k <= Len(a) /\ a[k] = None THEN 1 ELSE 0)
            /\ eff[1].pc = "done" => (Len(a) = 4 /\ loading = FALSE)

\* C10 witness: all four queries failed and the bootstrap is over.
C10_Witness ==
    /\ mounted = 1 /\ build # "legacy" /\ eff[1].pc = "done"
    /\ eff[1].answers = <<None, None, None, None>>
    /\ eff[1].streamData = StreamDefault /\ eff[1].statsData = StatsDefault
    /\ eff[1].alertsData = AlertsDefault /\ detectionStatus = FALSE
    /\ \A k \in 1..4 : Raised(FailureMessage[k]) = 1
    /\ loading = FALSE

(***************************************************************************)
(* Claims about the player's retries (SpecPlayer).                         *)
(***************************************************************************)
\* C5: the retry counter never exceeds 3, retryConnection has started at most
\* 3 reconnects since the last successful connection, and a retry request
\* whose render sees 3 or more attempts used starts no reconnect and leaves
\* the player's state as it is.
C5_RetryBudget ==
    /\ retryCount <= 3
    /\ attempts <= 3
    /\ \A c \in 3..4 : RetryConnectionOn(PlayerState, c, src, now) = PlayerState

\* C5 witness: a reconnect was started by retryConnection, its timer ran, the
\* new session failed and the player is in its error state.
C5_Witness ==
    /\ retryCount = 1 /\ attempts = 1
    /\ retryTimers = <<>>
    /\ hasError /\ connectionStatus = "error"

(***************************************************************************)
(* Claims about the order of bootstrap and live merging (SpecDashboard).   *)
(***************************************************************************)
\* C11: a push channel is open, and a stream locator is on display, only once
\* the four queries of the instance have settled and its bootstrap values are
\* applied (loading is false); once a frame has been delivered, stats and
\* alerts change only by the delivery of a frame, never by a bootstrap value.
C11_LiveAfterBootstrap ==
    [][/\ \A i \in channels' : eff'[i].pc = "done" /\ Len(eff'[i].answers) = 4
       /\ (mounted' \in channels' \/ streamUrl' # "") => ~loading'
       /\ (delivered # <<>> /\ delivered' = delivered)
             => UNCHANGED <<stats, alerts, trend>>]_vars

\* C11 witness: the bootstrap answered 5 alerts in total and one old alert,
\* then one live alert was merged on top of both.
C11_Witness ==
    /\ mounted = 1 /\ 1 \in channels /\ eff[1].pc = "done"
    /\ eff[1].answers[2] = Some(SummaryPayload) /\ eff[1].answers[3] = Some(<<OldAlert>>)
    /\ Len(delivered) = 1 /\ delivered[1] = CriticalFrame
    /\ stats.total = 6 /\ Len(alerts) = 2 /\ alerts[2] = OldAlert

AlertsWithin(as, from, to) ==
    {j \in 1..Len(as) : /\ as[j].timestamp # None
                        /\ as[j].timestamp[1] >= from
                        /\ as[j].timestamp[1] < to}

\* The buckets the specification describes: hours buckets, oldest first, that
\* cover the trailing window [t - hours, t), each counting its alerts.
TrailingTrend(as, hours, t) ==
    [k \in 1..hours |->
        LET bucketStart == t - (hours - k + 1) * MS_PER_HOUR
        IN  [time |-> bucketStart,
             count |-> Cardinality(AlertsWithin(as, bucketStart, bucketStart + MS_PER_HOUR))]]

\* The Dashboard of the hourly-trend source has applied its bootstrap.
TrendShown == mounted = 1 /\ build = "hourly-trend" /\ eff[1].pc = "done"

\* C13: the trend on display is 6 buckets, oldest first, covering exactly the
\* trailing window [now - 6 hours, now), each counting the alerts of its hour:
\* an alert inside the window is counted once, one outside it never.
C13_TrendCoversTrailingWindow ==
    TrendShown => trend = TrailingTrend(alerts, TREND_HOURS, now)

RECURSIVE SumCounts(_)
SumCounts(buckets) ==
    IF buckets = <<>> THEN 0 ELSE Head(buckets).count + SumCounts(Tail(buckets))

NonEmptyBuckets(buckets) == {k \in 1..Len(buckets) : buckets[k].count > 0}

OldestFirst(buckets) ==
    \A k \in 1..(Len(buckets) - 1) : buckets[k].time < buckets[k + 1].time

\* C14: whatever the time of day, the trend computed at bootstrap from two
\* alerts timestamped 30 and 90 minutes ago is 6 buckets, oldest first, whose
\* counts sum to 2, 2 of them non-empty and 4 empty.
C14_TwoAlertsTwoBuckets ==
    (/\ TrendShown /\ delivered = <<>>
     /\ eff[1].alertsData = <<AlertBefore(now, 30), AlertBefore(now, 90)>>)
    => /\ Len(trend) = 6
       /\ OldestFirst(trend)
       /\ SumCounts(trend) = 2
       /\ Cardinality(NonEmptyBuckets(trend)) = 2

\* C14 witness: at half past the hour the alert of 30 minutes ago lies on the
\* start of the newest bucket and the one of 90 minutes ago on the start of
\* the bucket before.
C14_Witness ==
    /\ TrendShown /\ delivered = <<>>
    /\ now % MS_PER_HOUR = 30 * MINUTE
    /\ eff[1].alertsData = <<AlertBefore(now, 30), AlertBefore(now, 90)>>
    /\ NonEmptyBuckets(trend) = {5, 6}
    /\ trend[6].time = now - 30 * MINUTE

\* The alerts of as whose timestamp cannot be parsed.
Unparseable(as) == {j \in 1..Len(as) : as[j].timestamp = None}

\* C15: an alert whose timestamp cannot be parsed is counted in the newest
\* bucket: the counts sum to the alerts inside the buckets' span plus the
\* alerts with an unparseable timestamp.
C15_UnparseableCountsAsNow ==
    TrendShown =>
       /\ SumCounts(trend) =
             Cardinality(AlertsWithin(alerts, trend[1].time, trend[6].time + MS_PER_HOUR))
                + Cardinality(Unparseable(alerts))
       /\ trend[6].count >= Cardinality(Unparseable(alerts))

\* C16: once the bootstrap is applied, and after every live arrival, the
\* trend on display is createHourlyTrend of the alerts on display, 6 buckets.
C16_TrendFollowsAlerts ==
    (mounted = 1 /\ build # "legacy" /\ eff[1].pc = "done")
    => /\ Len(trend) = TREND_HOURS
       /\ trend = CreateHourlyTrend(alerts, TREND_HOURS, now)

(***************************************************************************)
(* Claims about the toasts (SpecToast).                                    *)
(***************************************************************************)
Range(q) == {q[k] : k \in 1..Len(q)}

\* The step is a call of hideToast that removed something.
HideStep == toasts' # toasts /\ toastTimers' = toastTimers /\ raised' = raised

\* The step is the firing of a removal timer; FiredTimer is that timer.
TimerStep == Len(toastTimers') < Len(toastTimers)
FiredTimer == toastTimers[FirstDue(toastTimers)]

\* The toasts a removal timer was scheduled for.
OwnToasts(timer) ==
    {x \in Range(raised) : /\ x.id = timer.id
                           /\ x.duration > 0
                           /\ x.id[1] + x.duration + FADE_ALLOWANCE = timer.due}

\* C17: a call of hideToast removes the one toast with that id, and the
\* auto-removal timer of a toast that is no longer active changes nothing.
C17_DismissIsFinal ==
    [][/\ HideStep => Len(toasts') = Len(toasts) - 1
       /\ (TimerStep /\ OwnToasts(FiredTimer) \cap Range(toasts) = {})
             => toasts' = toasts]_vars

\* C18: a toast shown with duration <= 0 is never removed by a timer.
C18_PersistentUntilDismissed ==
    [][TimerStep => \A x \in Range(toasts) : x.duration <= 0 => x \in Range(toasts')]_vars

\* C19: a toast shown with duration d > 0 leaves the active set only by a
\* call of hideToast or by a timer firing d + 300 ms or more after it was shown.
C19_RemovedNoEarlierThanItsTimer ==
    [][\A x \in Range(toasts) :
          (x.duration > 0 /\ x \notin Range(toasts'))
             => \/ HideStep
                \/ TimerStep /\ now >= x.id[1] + x.duration + FADE_ALLOWANCE]_vars

\* C20: the toasts of the active set have different ids, they are listed in
\* the order they were shown, and a step that removes a toast removes exactly
\* one and leaves the others in place.
C20_UniqueIdsInInsertionOrder ==
    [][/\ \A i, j \in 1..Len(toasts') : i # j => toasts'[i].id # toasts'[j].id
       /\ Len(raised') > Len(raised) => toasts' = Append(toasts, raised'[Len(raised')])
       /\ (toasts' # toasts /\ raised' = raised)
             => \E k \in 1..Len(toasts) : toasts' = Without(toasts, k)]_vars

(***************************************************************************)
(* Claims about the snapshot and its notification (SpecDetection,          *)
(* SpecFallbackCount).                                                     *)
(***************************************************************************)
\* The type of the notification the specification gives an event whose
\* snapshot stores personCount: None when it gives none.
ClaimedNotificationType(e, personCount) ==
    IF Includes(OrElse(e.objects, <<"person">>), "weapon") \/ e.severity = Some("critical")
        THEN Some("error")
    ELSE IF personCount > 2 \/ e.severity = Some("high") THEN Some("warning")
    ELSE IF OrZero(e.new_person_count) > 0 THEN Some("info")
    ELSE None

\* C21: each updateDetection call raises at most one notification: critical
\* for a weapon or severity critical, otherwise a warning for a person count
\* above 2 or severity high, otherwise informational when new arrivals > 0,
\* otherwise none.
C21_NotificationPrecedence ==
    [][Len(fed') > Len(fed)
          => LET e == fed'[Len(fed')]
                 c == ClaimedNotificationType(e, currentDetection'[1].personCount)
             IN  IF c = None THEN raised' = raised
                 ELSE /\ Len(raised') = Len(raised) + 1
                      /\ raised'[Len(raised')].type = c[1]]_vars

\* The person count the specification gives the snapshot of an event.
ClaimedPersonCount(e) ==
    IF e.person_count # None THEN e.person_count[1]
    ELSE IF e.new_person_count # None THEN e.new_person_count[1]
    ELSE IF e.objects # None /\ CountPersons(e.objects[1]) > 0 THEN CountPersons(e.objects[1])
    ELSE 1

\* C22: the person count of a snapshot is the event's person_count if given,
\* else its new_person_count if given, else the number of "person" entries
\* of its object list, else 1.
C22_PersonCountPrecedence ==
    [][Len(fed') > Len(fed)
          => currentDetection'[1].personCount = ClaimedPersonCount(fed'[Len(fed')])]_vars

\* The expiry timer of the current snapshot is pending.
ExpiryPending ==
    \E k \in 1..Len(detTimers) :
        /\ detTimers[k].id = currentDetection[1].id
        /\ detTimers[k].due = currentDetection[1].timestamp + DETECTION_DWELL

\* C23: while a snapshot is current, a timer due 10 s after its creation is
\* pending that clears it, and the snapshot of every event stops being current:
\* it is superseded by a later event or currentDetection becomes null.
C23_SnapshotExpires ==
    /\ [](currentDetection # None => ExpiryPending)
    /\ \A n \in 1..MaxEvents :
          (currentDetection # None /\ currentDetection[1].serial = n)
             ~> (currentDetection = None \/ currentDetection[1].serial # n)

\* C23 witness: an event was processed, no later one superseded its snapshot,
\* 10 s have passed since and currentDetection is null.
C23_Witness ==
    /\ Len(fed) = 1
    /\ currentDetection = None
    /\ detTimers = <<>>
    /\ now >= detectionHistory[1].timestamp + DETECTION_DWELL

(***************************************************************************)
(* Claims about channel failures (SpecDashboard).                          *)
(***************************************************************************)
\* The step raises exactly one notification, the warning of the Dashboard's
\* onError for errorMsg.
RaisesChannelWarning(errorMsg) ==
    /\ Len(raised') = Len(raised) + 1
    /\ SubSeq(raised', 1, Len(raised)) = raised
    /\ raised'[Len(raised')].message = errorMsg
    /\ raised'[Len(raised')].type = "warning"
    /\ raised'[Len(raised')].duration = 5000

\* The state the Dashboard and the detection provider aggregate from alerts.
aggregateVars == <<alerts, stats, trend, currentDetection, detectionHistory, detectionCount,
                   detTimers, fed>>

\* The frame that arrived after a failure was processed as an alert.
ProcessedAfter(failure) ==
    (/\ mounted = 1
     /\ Len(delivered) = 2
     /\ delivered[1] = failure
     /\ OnMessageDispatch(delivered[2]) = "forward")
    => /\ alerts = <<delivered[2].value>> \o Bootstrapped
       /\ fed = <<delivered[2].value>>
       /\ stats.total = BootStats.total + 1

\* C24: a frame that fails to parse invokes the error callback once (one
\* parse-failure warning), is not forwarded, leaves the channel open and
\* changes neither histories, stats nor detection state; a frame that arrives
\* after it is processed.
C24_ParseFailureIsReportedOnce ==
    /\ [][delivered' = Append(delivered, GarbageFrame)
             => /\ RaisesChannelWarning("Failed to parse real-time alert data")
                /\ channels' = channels
                /\ UNCHANGED aggregateVars]_vars
    /\ []ProcessedAfter(GarbageFrame)

\* C24 witness: an unparseable frame and then an alert have arrived on the open
\* channel; one parse-failure warning was raised and the alert is on display.
C24_Witness ==
    /\ mounted = 1 /\ 1 \in channels
    /\ delivered = <<GarbageFrame, CriticalFrame>>
    /\ Raised("Failed to parse real-time alert data") = 1
    /\ alerts[1] = CriticalFrame.value

\* C25: a transport error of the channel invokes the same error callback as a
\* parse failure, which raises one transient warning; the channel is neither
\* closed nor reopened, histories, stats and detection state are unchanged,
\* and a frame that arrives after it is processed.
C25_TransportErrorIsTransient ==
    /\ [][delivered' = Append(delivered, TransportError)
             => /\ RaisesChannelWarning("Lost connection to real-time alerts")
                /\ channels' = channels
                /\ UNCHANGED <<aggregateVars, eff, mounted>>]_vars
    /\ []ProcessedAfter(TransportError)

\* C25 witness: the channel reported a transport error and then delivered an
\* alert; one lost-connection warning was raised and the alert is on display.
C25_Witness ==
    /\ mounted = 1 /\ 1 \in channels
    /\ delivered = <<TransportError, CriticalFrame>>
    /\ Raised("Lost connection to real-time alerts") = 1
    /\ alerts[1] = CriticalFrame.value

(***************************************************************************)
(* Claims about playback failures (SpecPlayer, SpecRecovery).              *)
(***************************************************************************)
\* The step raises exactly one notification, of the given type.
RaisesOne(type) ==
    /\ Len(raised') = Len(raised) + 1
    /\ raised'[Len(raised')].type = type

\* C26: a fatal playback error that is neither network-class nor media-class
\* destroys the session and puts the player into the Error state (error flag
\* set, connectionStatus = error), raising one error notification.
C26_UnclassifiedFatalErrorTearsDown ==
    [][HlsError("other", TRUE)
          => /\ hls' # None /\ hls'[1].destroyed
             /\ hls'[1].src = hls[1].src
             /\ hasError' /\ connectionStatus' = "error"
             /\ RaisesOne("error")]_vars

\* C26 witness: the session of the current src was destroyed by an
\* unclassified fatal error and the player is in Error.
C26_Witness ==
    /\ hls # None /\ hls[1].destroyed /\ hls[1].src = src
    /\ hasError /\ connectionStatus = "error"
    /\ Raised("Fatal stream error. Please try refreshing the page.") = 1

\* C27: a fatal network-class or media-class error keeps the session (neither
\* destroyed nor recreated) and the retry counter and raises one warning, and
\* once the session has recovered the player is not in the Error state.
C27_RecoverableInPlace ==
    /\ [][(HlsError("network", TRUE) \/ HlsError("media", TRUE))
             => /\ hls' = hls
                /\ retryCount' = retryCount /\ retryTimers' = retryTimers
                /\ RaisesOne("warning")]_vars
    /\ [][HlsRecovers => (~hasError' /\ connectionStatus' # "error")]_vars

\* C28: whenever the error flag is set, connectionStatus = error and fewer than
\* 3 retries have been used, the Retry Connection button is on screen.
C28_RetryOfferedOnEveryFailure ==
    (hasError /\ connectionStatus = "error" /\ retryCount < RETRY_LIMIT) => RetryButtonShown

\* C29: with the budget used up (retryCount = 3) no reconnect is started and
\* the player stays in Error unless the src changes, and a new src starts a
\* connection attempt with the retry counter back at 0.
C29_NewLocatorRestoresBudget ==
    [][/\ (retryCount >= RETRY_LIMIT /\ src' = src /\ retryCount' = retryCount)
             => (retryTimers' = retryTimers \/ Len(retryTimers') < Len(retryTimers))
                /\ (hasError => hasError')
       /\ (src' # src /\ src' # "")
             => /\ retryCount' = 0
                /\ platform # "none" => (isLoading' /\ connectionStatus' = "connecting")]_vars

\* C30: a live playback session is always the one loaded with the current
\* src: no callback creates or keeps a session for an old src.
C30_SessionBelongsToCurrentLocator ==
    /\ (hls # None /\ ~hls[1].destroyed) => hls[1].src = src
    /\ video # None => (src = "" \/ video[1].src = src)

(***************************************************************************)
(* Claims about the player's teardown and its connected signal             *)
(* (SpecPlayer, SpecDashboard).                                            *)
(***************************************************************************)
\* The step is a teardown: the effect's cleanup runs because src changed.
TeardownStep == src' # src

\* C31: a teardown releases the session if there is one, and that session
\* has not been destroyed before; it emits connected = false, and no session
\* of the old src is left.
C31_TeardownReleasesOnce ==
    [][TeardownStep
          => /\ hls # None => ~hls[1].destroyed
             /\ hls' # None => (hls'[1].src = src' /\ ~hls'[1].destroyed)
             /\ ~isDetecting']_vars

\* C32: the live detection status is true only while the player is connected
\* and the detection service reported is_running = true.
C32_LiveStatusNeedsConnectedPlayer ==
    isDetecting => (connectionStatus = "connected" /\ detectionStatus)

(***************************************************************************)
(* Claims about playback (SpecPlayback).                                   *)
(***************************************************************************)
\* The player's own state and the notifications.
playerStateVars == <<connectionStatus, hasError, isLoading, retryCount, hls, retryTimers,
                     attempts, raised, toasts>>

\* C33: a stalled or waiting event changes neither connectionStatus, the error
\* flag, the retry counter nor the session and raises no notification: the
\* handler only seeks, when playback is behind, and calls video.play().
C33_StallOnlySeeks ==
    [][\A live \in BOOLEAN, far \in BOOLEAN :
          Stalled(live, far)
             => /\ UNCHANGED playerStateVars
                /\ media'.play = "pending"
                /\ far => media'.seek]_vars

\* C33 witness: a connected native player has stalled more than 3 s behind
\* the end and was sent to the live edge; it is still connected, without error.
C33_Witness ==
    /\ platform = "native" /\ media.seek /\ media.play = "pending"
    /\ connectionStatus = "connected" /\ ~hasError /\ retryCount = 0
    /\ raised = <<>>

Forwarded ==
    LET IsForwarded(f) == OnMessageDispatch(f) = "forward"
        fs == SelectSeq(delivered, IsForwarded)
    IN  [k \in 1..Len(fs) |-> fs[k].value]

\* C35: entry i of the alert history is the i-th most recently arrived
\* forwarded frame, whatever the timestamps of the frames; the alerts of the
\* bootstrap follow.
C35_HistoryInArrivalOrder ==
    (mounted = 1 /\ build # "legacy" /\ eff[1].pc = "done")
    => /\ Len(alerts) = Len(Forwarded) + Len(Bootstrapped)
       /\ \A i \in 1..Len(Forwarded) : alerts[i] = Forwarded[Len(Forwarded) + 1 - i]
       /\ \A i \in 1..Len(Bootstrapped) : alerts[Len(Forwarded) + i] = Bootstrapped[i]

\* C35 witness: an alert timestamped 10 arrived after one timestamped 20 and
\* stands before it in the history.
C35_Witness ==
    /\ mounted = 1 /\ Len(alerts) >= 2
    /\ alerts[1].timestamp = Some(10) /\ alerts[2].timestamp = Some(20)
    /\ alerts[1].id > alerts[2].id /\ alerts[2].id > 0

\* How many of the forwarded alerts have the given severity.
ForwardedWith(severity) ==
    Cardinality({k \in 1..Len(Forwarded) : Forwarded[k].severity = Some(severity)})

\* C36: after bootstrap with stats (T, C, H, B) and n forwarded frames, c of
\* them critical and h high: total = T + n, critical = C + c, high = H + h,
\* blackout = B, and total - T is the number of frames added to the history.
C36_StatsCountForwardedFrames ==
    (mounted = 1 /\ build # "legacy" /\ eff[1].pc = "done")
    => /\ stats.total = BootStats.total + Len(Forwarded)
       /\ stats.critical = BootStats.critical + ForwardedWith("critical")
       /\ stats.high = BootStats.high + ForwardedWith("high")
       /\ stats.blackout = BootStats.blackout
       /\ stats.total - BootStats.total = Len(alerts) - Len(Bootstrapped)

(***************************************************************************)
(* Claims about the player's reconnects (SpecPlayer).                      *)
(***************************************************************************)
\* The step is a retryConnection() with budget remaining: it raises the
\* reconnect warning.
RetryInvoked ==
    /\ Len(raised') = Len(raised) + 1
    /\ raised'[Len(raised')].message = "Attempting to reconnect to video stream"

\* The step is the callback of a retry timer.
RetryTimerStep == Len(retryTimers') < Len(retryTimers)

\* C37: a retryConnection with budget remaining increases the retry counter by
\* exactly 1, clears the error flag, sets connectionStatus to connecting and
\* schedules one callback 2 seconds later; that callback runs once, and when
\* the src was set at the call and is still set it runs initializeVideo.  No
\* step increases the counter by more than 1.
C37_RetryCountsOnceAndReinitializes ==
    [][/\ retryCount' <= retryCount + 1
       /\ RetryInvoked
             => /\ retryCount < RETRY_LIMIT
                /\ retryCount' = retryCount + 1
                /\ ~hasError'
                /\ connectionStatus' = "connecting"
                /\ Len(retryTimers') = Len(retryTimers) + 1
                /\ SubSeq(retryTimers', 1, Len(retryTimers)) = retryTimers
                /\ retryTimers'[Len(retryTimers')].due = now + RETRY_DELAY
       /\ RetryTimerStep
             => LET t == retryTimers[FirstDue(retryTimers)]
                IN  /\ now >= t.due
                    /\ retryTimers' = Without(retryTimers, FirstDue(retryTimers))
                    /\ (t.src # "" /\ src # "")
                          => /\ isLoading'
                             /\ connectionStatus' = IF platform = "none" THEN "unsupported"
                                                    ELSE "connecting"
                             /\ platform = "hls.js" => (hls' # None /\ ~hls'[1].destroyed)
                             /\ platform = "native" => video' # None]_vars

\* A retry was invoked and its timer has run initializeVideo: the session in
\* place was created by a callback that saw retryCount = 0.
C37_Witness ==
    /\ retryCount = 1 /\ attempts = 1 /\ retryTimers = <<>>
    /\ now >= RETRY_DELAY
    /\ src # ""
    /\ hls # None /\ ~hls[1].destroyed /\ hls[1].retryCount = 0
    /\ isLoading /\ ~hasError /\ connectionStatus = "connecting"

\* The step raises the 'reconnected' success notification.
RaisesReconnected ==
    /\ Len(raised') = Len(raised) + 1
    /\ raised'[Len(raised')].message = "Video stream reconnected successfully!"
    /\ raised'[Len(raised')].type = "success"

\* C38: on every transition to Connected (MANIFEST_PARSED, loadeddata) the
\* retry counter is reset to 0, the loading flag is cleared, connected = true
\* is emitted, and the 'reconnected' success notification is raised exactly
\* when at least one retry led to this connection: it is raised when retries
\* were made since the last connection and their callbacks have run, and not
\* raised when no retry was made.
C38_ReconnectIsAnnounced ==
    [][(ManifestParsed \/ LoadedData)
          => /\ retryCount' = 0
             /\ ~isLoading'
             /\ connectionStatus' = "connected"
             /\ isDetecting' = detectionStatus
             /\ (attempts > 0 /\ retryTimers = <<>>) => RaisesReconnected
             /\ attempts = 0 => raised' = raised]_vars

====
